---- MODULE Spec2Model ----
(***************************************************************************)
(* The caching layer of the resolver (resolver/src/lookup_state.rs): the   *)
(* TTL-aware LRU store DnsLru, the response classifier of QueryFuture and  *)
(* the per-lookup state machine QueryState, shared by concurrent lookups   *)
(* through one Arc<Mutex<DnsLru>>.                                         *)
(***************************************************************************)
EXTENDS Integers, Sequences, FiniteSets, TLC

(***************************************************************************)
(* Numbers.  Seconds (u32 TTLs, the u64 seconds of a Duration, the seconds *)
(* of an Instant) are kept exactly, as two limbs <<hi, lo>> that stand for *)
(* hi * 65536 + lo with lo < 65536: 2147483647 + now does not fit into the *)
(* model checker's machine integers, and nothing in the code wraps.        *)
(***************************************************************************)
Base == 65536

Secs(n) == <<n \div Base, n % Base>>

Add(a, b) ==
    LET s == a[2] + b[2]
    IN  <<a[1] + b[1] + (s \div Base), s % Base>>

Lt(a, b) == a[1] < b[1] \/ (a[1] = b[1] /\ a[2] < b[2])

Le(a, b) == ~Lt(b, a)

\* const MAX_TTL: u32 = 2147483647_u32  (= 32767 * 65536 + 65535)
MAX_TTL == <<32767, 65535>>

\* u32::max_value() = 4294967295  (= 65535 * 65536 + 65535)
U32_MAX == <<65535, 65535>>

(***************************************************************************)
(* Option<T>: None is the empty tuple, Some(x) the one-element tuple.      *)
(***************************************************************************)
None == <<>>

Some(x) == <<x>>

IsSome(o) == o # <<>>

(***************************************************************************)
(* Bounds of the model.                                                    *)
(***************************************************************************)
MaxTime == 1
MaxCapacity == 1
MaxAnswers == 1
MaxNameServers == 1
MaxPairs == 2
MaxInstant == 2
MaxSection == 2

\* The lookups that CachingClient::lookup may create.
Lookups == {"l1", "l2"}

\* Query keys.  QueryNew is Query::new(), the key the tests use and the one
\* InsertCache::poll leaves behind when it moves its own key out.
QueryNew == [name |-> ".", query_type |-> "A"]

Queries == {QueryNew, [name |-> "www.example.com.", query_type |-> "A"]}

\* Instants that code outside the lookups may pass as `now` (the tests do).
Instants == {Secs(n) : n \in 0..MaxTime}

(***************************************************************************)
(* Records of a Message: rr_type, ttl (u32 seconds) and rdata.             *)
(***************************************************************************)
RDataA(ip) == [tag |-> "A", val |-> ip]

AnswerRecords ==
    { [rr_type |-> "A", ttl |-> Secs(0), rdata |-> RDataA("127.0.0.1")],
      [rr_type |-> "A", ttl |-> U32_MAX, rdata |-> RDataA("127.0.0.2")],
      [rr_type |-> "CNAME", ttl |-> Secs(1),
       rdata |-> [tag |-> "CNAME", val |-> "alias.example.com."]] }

NameServerRecords ==
    { [rr_type |-> "SOA", ttl |-> Secs(1), rdata |-> [tag |-> "SOA", minimum |-> Secs(0)]],
      [rr_type |-> "SOA", ttl |-> Secs(1), rdata |-> [tag |-> "SOA", minimum |-> Secs(1)]],
      [rr_type |-> "NS", ttl |-> Secs(1), rdata |-> [tag |-> "NS", minimum |-> Secs(0)]] }

SeqsUpTo(S, n) == UNION {[1..k -> S] : k \in 0..n}

ResponseCodes == {"NoError", "NXDomain", "ServFail"}

\* Responses with at most na answer records and nns authority records.
MessagesUpTo(na, nns) ==
    {[response_code |-> "NoError", answers |-> a, name_servers |-> ns] :
        a \in SeqsUpTo(AnswerRecords, na), ns \in SeqsUpTo(NameServerRecords, nns)}
    \cup {[response_code |-> "NXDomain", answers |-> <<>>, name_servers |-> ns] :
        ns \in SeqsUpTo(NameServerRecords, nns)}
    \cup {[response_code |-> "ServFail", answers |-> <<>>, name_servers |-> <<>>]}

\* The upstream future resolved to Err(ClientError) instead of a Message.
ClientErr == [response_code |-> "ClientError", answers |-> <<>>, name_servers |-> <<>>]

\* The responses the upstream client hands to the concurrent lookups.
Messages == MessagesUpTo(MaxAnswers, MaxNameServers)

(***************************************************************************)
(* LruCache<Query, LruValue> (crate lru_cache): a capacity and the entries *)
(* in order of use, least recently used first.                             *)
(***************************************************************************)
LruCache_new(capacity) == [max_size |-> capacity, map |-> <<>>]

Position(c, k) ==
    IF \E i \in DOMAIN c.map : c.map[i].key = k
    THEN CHOOSE i \in DOMAIN c.map : c.map[i].key = k
    ELSE 0

Without(s, i) == SubSeq(s, 1, i - 1) \o SubSeq(s, i + 1, Len(s))

\* Mutation: nothing is dropped when the store is over capacity.
LruCache_insert_no_evict(c, k, v) ==
    LET i    == Position(c, k)
        rest == IF i = 0 THEN c.map ELSE Without(c.map, i)
    IN  [c EXCEPT !.map = Append(rest, [key |-> k, value |-> v])]

\* Mutation: a present key keeps its old value (an entry-or-insert).
LruCache_insert_keep(c, k, v) ==
    LET i   == Position(c, k)
        all == IF i = 0 THEN Append(c.map, [key |-> k, value |-> v])
               ELSE Append(Without(c.map, i), c.map[i])
    IN  [c EXCEPT !.map = IF Len(all) > c.max_size THEN Tail(all) ELSE all]

\* insert: replaces the value of a present key, makes the key the most
\* recently used, then drops the least recently used entry when over capacity.
LruCache_insert(c, k, v) ==
    LET i    == Position(c, k)
        rest == IF i = 0 THEN c.map ELSE Without(c.map, i)
        all  == Append(rest, [key |-> k, value |-> v])
    IN  [c EXCEPT !.map = IF Len(all) > c.max_size THEN Tail(all) ELSE all]

\* get_mut: a present key becomes the most recently used.
LruCache_get_mut(c, k) ==
    LET i == Position(c, k)
    IN  IF i = 0 THEN c
        ELSE [c EXCEPT !.map = Append(Without(c.map, i), c.map[i])]

LruCache_remove(c, k) ==
    LET i == Position(c, k)
    IN  IF i = 0 THEN c ELSE [c EXCEPT !.map = Without(c.map, i)]

(***************************************************************************)
(* LruValue and DnsLru.  Each DnsLru operation yields the store after the  *)
(* call (lru) and the value the call returns (ret).                        *)
(***************************************************************************)
\* Mutation: the entry is already stale at the instant it expires.
is_current_strict(value, t) == Lt(t, value.ttl_until)

is_current(value, t) == Le(t, value.ttl_until)

DnsLru_new(capacity) == LruCache_new(capacity)

RECURSIVE FoldMinTtl(_, _)
FoldMinTtl(rdatas_and_ttl, min_ttl) ==
    IF rdatas_and_ttl = <<>> THEN min_ttl
    ELSE LET ttl == Head(rdatas_and_ttl)[2]
         IN  FoldMinTtl(Tail(rdatas_and_ttl), IF Lt(ttl, min_ttl) THEN ttl ELSE min_ttl)

\* Mutation: the TTL of the first record is taken instead of the minimum.
DnsLru_insert_first_ttl(lru, query, rdatas_and_ttl, t) ==
    LET rdatas    == [i \in DOMAIN rdatas_and_ttl |-> rdatas_and_ttl[i][1]]
        first     == rdatas_and_ttl[1][2]
        ttl       == IF Lt(first, MAX_TTL) THEN first ELSE MAX_TTL
        ttl_until == Add(t, ttl)
    IN  [lru |-> LruCache_insert(lru, query,
                    [lookup |-> Some(rdatas), ttl_until |-> ttl_until]),
         ret |-> rdatas]

\* Mutation: the fold starts from the largest u32 instead of MAX_TTL.
DnsLru_insert_no_ceiling(lru, query, rdatas_and_ttl, t) ==
    LET rdatas    == [i \in DOMAIN rdatas_and_ttl |-> rdatas_and_ttl[i][1]]
        ttl       == FoldMinTtl(rdatas_and_ttl, U32_MAX)
        ttl_until == Add(t, ttl)
    IN  [lru |-> LruCache_insert(lru, query,
                    [lookup |-> Some(rdatas), ttl_until |-> ttl_until]),
         ret |-> rdatas]

DnsLru_insert(lru, query, rdatas_and_ttl, t) ==
    LET rdatas    == [i \in DOMAIN rdatas_and_ttl |-> rdatas_and_ttl[i][1]]
        ttl       == FoldMinTtl(rdatas_and_ttl, MAX_TTL)
        ttl_until == Add(t, ttl)
    IN  [lru |-> LruCache_insert(lru, query,
                    [lookup |-> Some(rdatas), ttl_until |-> ttl_until]),
         ret |-> rdatas]

\* io::Error::new(kind, message); the message is kept as its formatted parts.
io_Error(kind, message) == [kind |-> kind, message |-> message]

nx_error(query) ==
    io_Error("AddrNotAvailable",
             <<"Addr does not exist for: ", query.name, query.query_type>>)

\* What a lookup's future has resolved to (Poll<Lookup, io::Error>), if it has.
NoError == io_Error("none", <<>>)

Pending == [kind |-> "Pending", lookup |-> <<>>, error |-> NoError]

Ready(lookup) == [kind |-> "Ready", lookup |-> lookup, error |-> NoError]

Err(error) == [kind |-> "Err", lookup |-> <<>>, error |-> error]

Dropped == [kind |-> "Dropped", lookup |-> <<>>, error |-> NoError]

DnsLru_negative(lru, query, ttl, t) ==
    LET ttl_until == Add(t, ttl)
    IN  [lru |-> LruCache_insert(lru, query, [lookup |-> None, ttl_until |-> ttl_until]),
         ret |-> nx_error(query)]

\* Mutation: an out-of-date entry is reported absent but left in the store.
DnsLru_get_keep_expired(lru, query, t) ==
    LET i == Position(lru, query)
    IN  IF i = 0 THEN [lru |-> lru, ret |-> None]
        ELSE LET value     == lru.map[i].value
                 refreshed == LruCache_get_mut(lru, query)
             IN  IF is_current(value, t)
                 THEN [lru |-> refreshed, ret |-> value.lookup]
                 ELSE [lru |-> refreshed, ret |-> None]

DnsLru_get(lru, query, t) ==
    LET i == Position(lru, query)
    IN  IF i = 0 THEN [lru |-> lru, ret |-> None]
        ELSE LET value     == lru.map[i].value
                 refreshed == LruCache_get_mut(lru, query)
             IN  IF is_current(value, t)
                 THEN [lru |-> refreshed, ret |-> value.lookup]
                 ELSE [lru |-> LruCache_remove(refreshed, query), ret |-> None]

(***************************************************************************)
(* Records and the classifier of QueryFuture.                              *)
(***************************************************************************)
Exists(records) == [tag |-> "Exists", records |-> records, ttl |-> None]

NoData(ttl) == [tag |-> "NoData", records |-> <<>>, ttl |-> ttl]

RECURSIVE FilterAnswers(_, _)
FilterAnswers(answers, query_type) ==
    IF answers = <<>> THEN <<>>
    ELSE LET r    == Head(answers)
             rest == FilterAnswers(Tail(answers), query_type)
         IN  IF query_type = r.rr_type THEN <<<<r.rdata, r.ttl>>>> \o rest ELSE rest

RECURSIVE FindSoa(_)
FindSoa(name_servers) ==
    IF name_servers = <<>> THEN None
    ELSE IF Head(name_servers).rr_type = "SOA" THEN Some(Head(name_servers))
         ELSE FindSoa(Tail(name_servers))

\* Mutation: the SOA minimum is taken whatever the client validates.
handle_nxdomain_always(is_dnssec, message, valid_nsec) ==
    LET soa == FindSoa(message.name_servers)
    IN  IF IsSome(soa) /\ soa[1].rdata.tag = "SOA"
        THEN NoData(Some(soa[1].rdata.minimum))
        ELSE NoData(None)

handle_nxdomain(is_dnssec, message, valid_nsec) ==
    IF valid_nsec \/ ~is_dnssec
    THEN LET soa == FindSoa(message.name_servers)
         IN  IF IsSome(soa) /\ soa[1].rdata.tag = "SOA"
             THEN NoData(Some(soa[1].rdata.minimum))
             ELSE NoData(None)
    ELSE NoData(None)

\* Mutation: the answers are kept whatever their type.
handle_noerror_unfiltered(is_dnssec, query, message) ==
    LET records == [i \in DOMAIN message.answers |->
                       <<message.answers[i].rdata, message.answers[i].ttl>>]
    IN  IF records # <<>> THEN Exists(records)
        ELSE handle_nxdomain(is_dnssec, message, TRUE)

\* Mutation: an empty answer is handed on as not validated.
handle_noerror_unverified(is_dnssec, query, message) ==
    LET records == FilterAnswers(message.answers, query.query_type)
    IN  IF records # <<>> THEN Exists(records)
        ELSE handle_nxdomain(is_dnssec, message, FALSE)

handle_noerror(is_dnssec, query, message) ==
    LET records == FilterAnswers(message.answers, query.query_type)
    IN  IF records # <<>> THEN Exists(records)
        ELSE handle_nxdomain(is_dnssec, message, TRUE)

\* Mutation: a response code other than NoError and NXDomain is taken as an
\* empty answer.
Classify_lenient(is_dnssec, q, message) ==
    CASE message.response_code = "NXDomain" ->
            [ok |-> TRUE, records |-> handle_nxdomain(is_dnssec, message, FALSE),
             error |-> NoError]
      [] message.response_code = "ClientError" ->
            [ok |-> FALSE, records |-> NoData(None),
             error |-> io_Error("Other", <<"ClientError">>)]
      [] OTHER ->
            [ok |-> TRUE, records |-> handle_noerror(is_dnssec, q, message),
             error |-> NoError]

\* QueryFuture::poll on a resolved message: Ok(Records) or the io::Error.
Classify(is_dnssec, q, message) ==
    CASE message.response_code = "NXDomain" ->
            [ok |-> TRUE, records |-> handle_nxdomain(is_dnssec, message, FALSE),
             error |-> NoError]
      [] message.response_code = "NoError" ->
            [ok |-> TRUE, records |-> handle_noerror(is_dnssec, q, message),
             error |-> NoError]
      [] message.response_code = "ClientError" ->
            [ok |-> FALSE, records |-> NoData(None),
             error |-> io_Error("Other", <<"ClientError">>)]
      [] OTHER ->
            [ok |-> FALSE, records |-> NoData(None),
             error |-> io_Error("Other", <<"DNS Error: ", message.response_code>>)]

\* Mutation: a negative result without a TTL is stored with a TTL of 0.
InsertCache_match_default_ttl(lru, q, rdata, t) ==
    IF rdata.tag = "Exists"
    THEN LET r == DnsLru_insert(lru, q, rdata.records, t)
         IN  [lru |-> r.lru, outcome |-> Ready(r.ret), wrote |-> <<"insert">>]
    ELSE LET r == DnsLru_negative(lru, q, IF IsSome(rdata.ttl) THEN rdata.ttl[1] ELSE Secs(0), t)
         IN  [lru |-> r.lru, outcome |-> Err(r.ret), wrote |-> <<"negative">>]

\* InsertCache::poll with the guard held: the match on the records moved out.
\* wrote is the DnsLru method called, if one was.
InsertCache_match(lru, q, rdata, t) ==
    IF rdata.tag = "Exists"
    THEN LET r == DnsLru_insert(lru, q, rdata.records, t)
         IN  [lru |-> r.lru, outcome |-> Ready(r.ret), wrote |-> <<"insert">>]
    ELSE IF IsSome(rdata.ttl)
    THEN LET r == DnsLru_negative(lru, q, rdata.ttl[1], t)
         IN  [lru |-> r.lru, outcome |-> Err(r.ret), wrote |-> <<"negative">>]
    ELSE [lru |-> lru, outcome |-> Err(nx_error(q)), wrote |-> <<>>]

(***************************************************************************)
(* State.                                                                  *)
(***************************************************************************)
VARIABLES
    cache,          \* the DnsLru inside CachingClient.lru
    lockHolder,     \* the lookup whose poll holds the MutexGuard, or "none"
    poisoned,       \* the Mutex's poison flag
    now,            \* the clock that Instant::now() reads
    dnssec,         \* client.is_verifying_dnssec()
    state,          \* per lookup: the QueryState variant ("None": not created)
    query,          \* per lookup: the query field of the current variant
    rdatas,         \* per lookup: InsertCache.rdatas
    message_future, \* per lookup: QueryFuture.message_future
    notified,       \* per lookup: its task is scheduled to be polled
    outcome,        \* per lookup: what its future resolved to, if it did
    events,         \* per lookup: its cache and client calls, in order
    polled,         \* per lookup: how its last QueryState::poll returned
    lastOp          \* the last direct call of a DnsLru method and its result

vars == <<cache, lockHolder, poisoned, now, dnssec, state, query, rdatas,
          message_future, notified, outcome, events, polled, lastOp>>

lookupVars == <<lockHolder, poisoned, now, dnssec, state, query, rdatas,
                message_future, notified, outcome, events, polled>>

\* No direct call yet.
NoOp == [op |-> "none", query |-> QueryNew, now |-> Secs(0), rdatas_and_ttl |-> <<>>,
         ttl |-> Secs(0), message |-> ClientErr, classified |-> FALSE,
         records |-> NoData(None), ret |-> None, err |-> NoError]

\* A lookup whose future exists and has not resolved or been dropped.
Unfinished(l) == state[l] # "None" /\ outcome[l].kind = "Pending"

Init ==
    /\ cache \in {DnsLru_new(c) : c \in 0..MaxCapacity}
    /\ lockHolder = "none"
    /\ poisoned = FALSE
    /\ now = Secs(0)
    /\ dnssec \in BOOLEAN
    /\ state = [l \in Lookups |-> "None"]
    /\ query = [l \in Lookups |-> QueryNew]
    /\ rdatas = [l \in Lookups |-> NoData(None)]
    /\ message_future = [l \in Lookups |-> "none"]
    /\ notified = [l \in Lookups |-> FALSE]
    /\ outcome = [l \in Lookups |-> Pending]
    /\ events = [l \in Lookups |-> <<>>]
    /\ polled = [l \in Lookups |-> "never"]
    /\ lastOp = NoOp

(***************************************************************************)
(* CachingClient::lookup: a new QueryState in FromCache, handed to the     *)
(* executor for its first poll.                                            *)
(***************************************************************************)
CachingClient_lookup(l, q) ==
    /\ state[l] = "None"
    /\ state' = [state EXCEPT ![l] = "FromCache"]
    /\ query' = [query EXCEPT ![l] = q]
    /\ notified' = [notified EXCEPT ![l] = TRUE]
    /\ UNCHANGED <<cache, lockHolder, poisoned, now, dnssec, rdatas, message_future,
                   outcome, events, polled, lastOp>>

\* A poll of lookup l may start: it is unfinished, its task was notified and no
\* poll of it is under way.
MayPoll(l, variant) ==
    /\ state[l] = variant
    /\ Unfinished(l)
    /\ notified[l]
    /\ lockHolder # l

(***************************************************************************)
(* cache.try_lock() of FromCache::poll and InsertCache::poll, up to the    *)
(* return of QueryState::poll when the guard is not obtained.              *)
(*   WouldBlock : task::current().notify(), NotReady                       *)
(*   Poisoned   : Err("poisoned: ...")                                     *)
(*   Ok(guard)  : the poll goes on holding the guard                       *)
(***************************************************************************)
\* Mutation: WouldBlock returns NotReady without task::current().notify().
try_lock_no_notify(l) ==
    IF lockHolder # "none"
    THEN /\ polled' = [polled EXCEPT ![l] = "NotReady: WouldBlock"]
         /\ notified' = [notified EXCEPT ![l] = FALSE]
         /\ UNCHANGED <<lockHolder, outcome>>
    ELSE IF poisoned
    THEN /\ outcome' = [outcome EXCEPT ![l] = Err(io_Error("Other", <<"poisoned: ">>))]
         /\ notified' = [notified EXCEPT ![l] = FALSE]
         /\ polled' = [polled EXCEPT ![l] = "Err"]
         /\ UNCHANGED lockHolder
    ELSE /\ lockHolder' = l
         /\ notified' = [notified EXCEPT ![l] = FALSE]
         /\ UNCHANGED <<outcome, polled>>

\* Mutation: the guard of a poisoned lock is used all the same.
try_lock_ignore_poison(l) ==
    IF lockHolder # "none"
    THEN /\ polled' = [polled EXCEPT ![l] = "NotReady: WouldBlock"]
         /\ UNCHANGED <<lockHolder, notified, outcome>>
    ELSE /\ lockHolder' = l
         /\ notified' = [notified EXCEPT ![l] = FALSE]
         /\ UNCHANGED <<outcome, polled>>

\* Mutation: WouldBlock is returned to the caller as an error.
try_lock_would_block_err(l) ==
    IF lockHolder # "none"
    THEN /\ outcome' = [outcome EXCEPT ![l] = Err(io_Error("WouldBlock", <<"would block">>))]
         /\ notified' = [notified EXCEPT ![l] = FALSE]
         /\ polled' = [polled EXCEPT ![l] = "Err"]
         /\ UNCHANGED lockHolder
    ELSE IF poisoned
    THEN /\ outcome' = [outcome EXCEPT ![l] = Err(io_Error("Other", <<"poisoned: ">>))]
         /\ notified' = [notified EXCEPT ![l] = FALSE]
         /\ polled' = [polled EXCEPT ![l] = "Err"]
         /\ UNCHANGED lockHolder
    ELSE /\ lockHolder' = l
         /\ notified' = [notified EXCEPT ![l] = FALSE]
         /\ UNCHANGED <<outcome, polled>>

try_lock(l) ==
    IF lockHolder # "none"
    THEN /\ polled' = [polled EXCEPT ![l] = "NotReady: WouldBlock"]
         /\ UNCHANGED <<lockHolder, notified, outcome>>
    ELSE IF poisoned
    THEN /\ outcome' = [outcome EXCEPT ![l] = Err(io_Error("Other", <<"poisoned: ">>))]
         /\ notified' = [notified EXCEPT ![l] = FALSE]
         /\ polled' = [polled EXCEPT ![l] = "Err"]
         /\ UNCHANGED lockHolder
    ELSE /\ lockHolder' = l
         /\ notified' = [notified EXCEPT ![l] = FALSE]
         /\ UNCHANGED <<outcome, polled>>

FromCache_try_lock(l) ==
    /\ MayPoll(l, "FromCache")
    /\ try_lock(l)
    /\ UNCHANGED <<cache, poisoned, now, dnssec, state, query, rdatas, message_future,
                   events, lastOp>>

\* Mutation: the variant taken out of self is not replaced by Query.
query_after_cache_no_write_back(l) ==
    /\ state' = [state EXCEPT ![l] = "Error"]
    /\ message_future' = [message_future EXCEPT ![l] = "pending"]

\* QueryState::query_after_cache: self is replaced by QueryState::Error and
\* matched; from FromCache, client.lookup(query) is called and self becomes
\* Query; from any other variant the function panics ("bad state, expected
\* FromCache") and self stays QueryState::Error.
query_after_cache(l) ==
    IF state[l] = "FromCache"
    THEN /\ state' = [state EXCEPT ![l] = "Query"]
         /\ message_future' = [message_future EXCEPT ![l] = "pending"]
    ELSE /\ state' = [state EXCEPT ![l] = "Error"]
         /\ UNCHANGED message_future

\* QueryState::cache: self is replaced by QueryState::Error and matched; from
\* Query, self becomes InsertCache with the records; from any other variant
\* the function panics ("bad state, expected Query") and self stays
\* QueryState::Error.
QueryState_cache(l, records) ==
    IF state[l] = "Query"
    THEN /\ state' = [state EXCEPT ![l] = "InsertCache"]
         /\ rdatas' = [rdatas EXCEPT ![l] = records]
    ELSE /\ state' = [state EXCEPT ![l] = "Error"]
         /\ UNCHANGED rdatas

\* Mutation: the upstream query is issued before the store is read, and again
\* on a miss.
FromCache_poll_query_first(l) ==
    /\ lockHolder = l
    /\ state[l] = "FromCache"
    /\ LET r == DnsLru_get(cache, query[l], now)
       IN  /\ cache' = r.lru
           /\ lockHolder' = "none"
           /\ query_after_cache(l)
           /\ events' = [events EXCEPT ![l] = @ \o <<"client.lookup", "get">>]
           /\ notified' = [notified EXCEPT ![l] = TRUE]
           /\ polled' = [polled EXCEPT ![l] = "NotReady"]
           /\ UNCHANGED outcome
    /\ UNCHANGED <<poisoned, now, dnssec, query, rdatas, lastOp>>

\* Mutation: single flight; on a miss, a lookup waits in FromCache while
\* another lookup for its key is querying upstream.
FromCache_poll_coalesce(l) ==
    /\ lockHolder = l
    /\ state[l] = "FromCache"
    /\ LET r == DnsLru_get(cache, query[l], now)
           in_flight == \E w \in Lookups \ {l} :
                            /\ state[w] = "Query"
                            /\ outcome[w].kind = "Pending"
                            /\ query[w] = query[l]
       IN  /\ cache' = r.lru
           /\ lockHolder' = "none"
           /\ IF IsSome(r.ret)
              THEN /\ outcome' = [outcome EXCEPT ![l] = Ready(r.ret[1])]
                   /\ events' = [events EXCEPT ![l] = Append(@, "get")]
                   /\ polled' = [polled EXCEPT ![l] = "Ready"]
                   /\ UNCHANGED <<state, message_future, notified>>
              ELSE IF in_flight
              THEN /\ notified' = [notified EXCEPT ![l] = TRUE]
                   /\ polled' = [polled EXCEPT ![l] = "NotReady"]
                   /\ UNCHANGED <<state, message_future, outcome, events>>
              ELSE /\ query_after_cache(l)
                   /\ events' = [events EXCEPT ![l] = @ \o <<"get", "client.lookup">>]
                   /\ notified' = [notified EXCEPT ![l] = TRUE]
                   /\ polled' = [polled EXCEPT ![l] = "NotReady"]
                   /\ UNCHANGED outcome
    /\ UNCHANGED <<poisoned, now, dnssec, query, rdatas, lastOp>>

\* Mutation: on a miss the guard is kept while the upstream query is awaited.
FromCache_poll_keep_guard(l) ==
    /\ lockHolder = l
    /\ state[l] = "FromCache"
    /\ LET r == DnsLru_get(cache, query[l], now)
       IN  /\ cache' = r.lru
           /\ IF IsSome(r.ret)
              THEN /\ outcome' = [outcome EXCEPT ![l] = Ready(r.ret[1])]
                   /\ events' = [events EXCEPT ![l] = Append(@, "get")]
                   /\ polled' = [polled EXCEPT ![l] = "Ready"]
                   /\ lockHolder' = "none"
                   /\ UNCHANGED <<state, message_future, notified>>
              ELSE /\ query_after_cache(l)
                   /\ events' = [events EXCEPT ![l] = @ \o <<"get", "client.lookup">>]
                   /\ notified' = [notified EXCEPT ![l] = TRUE]
                   /\ polled' = [polled EXCEPT ![l] = "NotReady"]
                   /\ UNCHANGED <<outcome, lockHolder>>
    /\ UNCHANGED <<poisoned, now, dnssec, query, rdatas, lastOp>>

\* FromCache::poll with the guard held: lru.get(&self.query, Instant::now()),
\* the guard dropped, and the rest of QueryState::poll.
FromCache_poll(l) ==
    /\ lockHolder = l
    /\ state[l] = "FromCache"
    /\ LET r == DnsLru_get(cache, query[l], now)
       IN  /\ cache' = r.lru
           /\ lockHolder' = "none"
           /\ IF IsSome(r.ret)
              THEN /\ outcome' = [outcome EXCEPT ![l] = Ready(r.ret[1])]
                   /\ events' = [events EXCEPT ![l] = Append(@, "get")]
                   /\ polled' = [polled EXCEPT ![l] = "Ready"]
                   /\ UNCHANGED <<state, message_future, notified>>
              ELSE /\ query_after_cache(l)
                   /\ events' = [events EXCEPT ![l] = @ \o <<"get", "client.lookup">>]
                   /\ notified' = [notified EXCEPT ![l] = TRUE]
                   /\ polled' = [polled EXCEPT ![l] = "NotReady"]
                   /\ UNCHANGED outcome
    /\ UNCHANGED <<poisoned, now, dnssec, query, rdatas, lastOp>>

(***************************************************************************)
(* The upstream future resolves and wakes the task that awaits it.         *)
(***************************************************************************)
UpstreamResolves(l) ==
    /\ Unfinished(l)
    /\ message_future[l] = "pending"
    /\ message_future' = [message_future EXCEPT ![l] = "ready"]
    /\ notified' = [notified EXCEPT ![l] = TRUE]
    /\ UNCHANGED <<cache, lockHolder, poisoned, now, dnssec, state, query, rdatas,
                   outcome, events, polled, lastOp>>

\* What QueryFuture::poll can return for a query once the upstream future
\* has resolved, to a message or to an error.
Classified ==
    [is_dnssec \in BOOLEAN |->
        [q \in Queries |->
            {Classify(is_dnssec, q, message) : message \in Messages \cup {ClientErr}}]]

\* Mutation: after QueryState::cache the poll returns NotReady without
\* task::current().notify().
QueryFuture_poll_no_notify(l) ==
    /\ MayPoll(l, "Query")
    /\ IF message_future[l] = "pending"
       THEN /\ notified' = [notified EXCEPT ![l] = FALSE]
            /\ polled' = [polled EXCEPT ![l] = "NotReady: upstream"]
            /\ UNCHANGED <<state, rdatas, message_future, outcome, events>>
       ELSE \E c \in Classified[dnssec][query[l]] :
              /\ message_future' = [message_future EXCEPT ![l] = "taken"]
              /\ IF c.ok
                 THEN /\ QueryState_cache(l, c.records)
                      /\ events' = [events EXCEPT ![l] = Append(@, "classified")]
                      /\ notified' = [notified EXCEPT ![l] = FALSE]
                      /\ polled' = [polled EXCEPT ![l] = "NotReady"]
                      /\ UNCHANGED outcome
                 ELSE /\ outcome' = [outcome EXCEPT ![l] = Err(c.error)]
                      /\ notified' = [notified EXCEPT ![l] = FALSE]
                      /\ polled' = [polled EXCEPT ![l] = "Err"]
                      /\ UNCHANGED <<state, rdatas, events>>
    /\ UNCHANGED <<cache, lockHolder, poisoned, now, dnssec, query, lastOp>>

\* QueryState::poll in Query: QueryFuture::poll, then QueryState::cache.
QueryFuture_poll(l) ==
    /\ MayPoll(l, "Query")
    /\ IF message_future[l] = "pending"
       THEN /\ notified' = [notified EXCEPT ![l] = FALSE]
            /\ polled' = [polled EXCEPT ![l] = "NotReady: upstream"]
            /\ UNCHANGED <<state, rdatas, message_future, outcome, events>>
       ELSE \E c \in Classified[dnssec][query[l]] :
              /\ message_future' = [message_future EXCEPT ![l] = "taken"]
              /\ IF c.ok
                 THEN /\ QueryState_cache(l, c.records)
                      /\ events' = [events EXCEPT ![l] = Append(@, "classified")]
                      /\ notified' = [notified EXCEPT ![l] = TRUE]
                      /\ polled' = [polled EXCEPT ![l] = "NotReady"]
                      /\ UNCHANGED outcome
                 ELSE /\ outcome' = [outcome EXCEPT ![l] = Err(c.error)]
                      /\ notified' = [notified EXCEPT ![l] = FALSE]
                      /\ polled' = [polled EXCEPT ![l] = "Err"]
                      /\ UNCHANGED <<state, rdatas, events>>
    /\ UNCHANGED <<cache, lockHolder, poisoned, now, dnssec, query, lastOp>>

InsertCache_try_lock(l) ==
    /\ MayPoll(l, "InsertCache")
    /\ try_lock(l)
    /\ UNCHANGED <<cache, poisoned, now, dnssec, state, query, rdatas, message_future,
                   events, lastOp>>

\* InsertCache::poll with the guard held: the key and the records are moved
\* out, the store is written, the guard is dropped.
InsertCache_poll(l) ==
    /\ lockHolder = l
    /\ state[l] = "InsertCache"
    /\ query' = [query EXCEPT ![l] = QueryNew]
    /\ rdatas' = [rdatas EXCEPT ![l] = NoData(None)]
    /\ lockHolder' = "none"
    /\ LET r == InsertCache_match(cache, query[l], rdatas[l], now)
       IN  /\ cache' = r.lru
           /\ outcome' = [outcome EXCEPT ![l] = r.outcome]
           /\ polled' = [polled EXCEPT ![l] = r.outcome.kind]
           /\ events' = [events EXCEPT ![l] = @ \o r.wrote]
    /\ UNCHANGED <<poisoned, now, dnssec, state, message_future, notified, lastOp>>

(***************************************************************************)
(* The environment: the future is dropped between two polls, a thread that *)
(* holds the guard panics, time passes.                                    *)
(***************************************************************************)
\* Mutation: a lookup dropped in InsertCache writes its records on the way out.
Drop_flushes(l) ==
    /\ Unfinished(l)
    /\ lockHolder # l
    /\ outcome' = [outcome EXCEPT ![l] = Dropped]
    /\ notified' = [notified EXCEPT ![l] = FALSE]
    /\ query' = [query EXCEPT ![l] = QueryNew]
    /\ rdatas' = [rdatas EXCEPT ![l] = NoData(None)]
    /\ message_future' = [message_future EXCEPT ![l] = "none"]
    /\ cache' = IF state[l] = "InsertCache"
                THEN InsertCache_match(cache, query[l], rdatas[l], now).lru
                ELSE cache
    /\ UNCHANGED <<lockHolder, poisoned, now, dnssec, state, events, polled, lastOp>>

Drop(l) ==
    /\ Unfinished(l)
    /\ lockHolder # l
    /\ outcome' = [outcome EXCEPT ![l] = Dropped]
    /\ notified' = [notified EXCEPT ![l] = FALSE]
    /\ query' = [query EXCEPT ![l] = QueryNew]
    /\ rdatas' = [rdatas EXCEPT ![l] = NoData(None)]
    /\ message_future' = [message_future EXCEPT ![l] = "none"]
    /\ UNCHANGED <<cache, lockHolder, poisoned, now, dnssec, state, events, polled, lastOp>>

HolderPanics ==
    /\ lockHolder = "none"
    /\ ~poisoned
    /\ poisoned' = TRUE
    /\ UNCHANGED <<cache, lockHolder, now, dnssec, state, query, rdatas, message_future,
                   notified, outcome, events, polled, lastOp>>

Tick ==
    /\ Lt(now, Secs(MaxTime))
    /\ now' = Add(now, Secs(1))
    /\ UNCHANGED <<cache, lockHolder, poisoned, dnssec, state, query, rdatas,
                   message_future, notified, outcome, events, polled, lastOp>>

Poll(l) ==
    \/ FromCache_try_lock(l)
    \/ FromCache_poll(l)
    \/ QueryFuture_poll(l)
    \/ InsertCache_try_lock(l)
    \/ InsertCache_poll(l)

Next ==
    \/ \E l \in Lookups, q \in Queries : CachingClient_lookup(l, q)
    \/ \E l \in Lookups : FromCache_try_lock(l)
    \/ \E l \in Lookups : FromCache_poll(l)
    \/ \E l \in Lookups : QueryFuture_poll(l)
    \/ \E l \in Lookups : InsertCache_try_lock(l)
    \/ \E l \in Lookups : InsertCache_poll(l)
    \/ \E l \in Lookups : UpstreamResolves(l)
    \/ \E l \in Lookups : Drop(l)
    \/ HolderPanics
    \/ Tick

Spec == Init /\ [][Next]_vars

\* The executor polls every task that was notified, the holder of the guard
\* runs on, and every upstream future resolves.
Fairness ==
    \A l \in Lookups : WF_vars(Poll(l)) /\ WF_vars(UpstreamResolves(l))

SpecFair == Spec /\ Fairness

(***************************************************************************)
(* DnsLru called directly, as the unit tests do, at instants chosen by the *)
(* caller.                                                                 *)
(***************************************************************************)
\* The capacity the tests create their store with: DnsLru::new(1).
TestCapacity == 1

\* The store of the tests, empty, of a capacity up to theirs.
LruInit ==
    /\ Init
    /\ cache.max_size <= TestCapacity

TestPairs ==
    { <<RDataA("127.0.0.1"), Secs(1)>>,
      <<RDataA("127.0.0.2"), Secs(2)>>,
      <<RDataA("127.0.0.2"), U32_MAX>> }

TestRdatasAndTtl == SeqsUpTo(TestPairs, MaxPairs) \ {<<>>}

TestNegativeTtls == {Secs(0), Secs(1), U32_MAX}

TestInstants == {Secs(n) : n \in 0..MaxInstant}

Test_insert(q, rdatas_and_ttl, t) ==
    LET r == DnsLru_insert(cache, q, rdatas_and_ttl, t)
    IN  /\ cache' = r.lru
        /\ lastOp' = [NoOp EXCEPT !.op = "insert", !.query = q, !.now = t,
                                  !.rdatas_and_ttl = rdatas_and_ttl, !.ret = Some(r.ret)]
        /\ UNCHANGED lookupVars

Test_negative(q, ttl, t) ==
    LET r == DnsLru_negative(cache, q, ttl, t)
    IN  /\ cache' = r.lru
        /\ lastOp' = [NoOp EXCEPT !.op = "negative", !.query = q, !.now = t,
                                  !.ttl = ttl, !.err = r.ret]
        /\ UNCHANGED lookupVars

Test_get(q, t) ==
    LET r == DnsLru_get(cache, q, t)
    IN  /\ cache' = r.lru
        /\ lastOp' = [NoOp EXCEPT !.op = "get", !.query = q, !.now = t, !.ret = r.ret]
        /\ UNCHANGED lookupVars

LruNext ==
    \/ \E q \in Queries, p \in TestRdatasAndTtl, t \in TestInstants : Test_insert(q, p, t)
    \/ \E q \in Queries, ttl \in TestNegativeTtls, t \in TestInstants : Test_negative(q, ttl, t)
    \/ \E q \in Queries, t \in TestInstants : Test_get(q, t)

SpecLru == LruInit /\ [][LruNext]_vars

(***************************************************************************)
(* One response taken through QueryFuture::poll and, when it classifies,   *)
(* through InsertCache::poll on the still empty store.                     *)
(***************************************************************************)
TestMessages == MessagesUpTo(MaxSection, MaxSection) \cup {ClientErr}

\* The queries the responses answer: the keys of the lookups and one for
\* another record type.
TestQueries == Queries \cup {[name |-> "www.example.com.", query_type |-> "CNAME"]}

Test_respond(q, message) ==
    /\ lastOp.op = "none"
    /\ LET c == Classify(dnssec, q, message)
           r == InsertCache_match(cache, q, c.records, now)
       IN  IF c.ok
           THEN /\ cache' = r.lru
                /\ lastOp' = [NoOp EXCEPT !.op = "respond", !.query = q, !.now = now,
                                          !.message = message, !.classified = TRUE,
                                          !.records = c.records,
                                          !.ret = IF r.outcome.kind = "Ready"
                                                  THEN Some(r.outcome.lookup) ELSE None,
                                          !.err = r.outcome.error]
           ELSE /\ cache' = cache
                /\ lastOp' = [NoOp EXCEPT !.op = "respond", !.query = q, !.now = now,
                                          !.message = message, !.err = c.error]
    /\ UNCHANGED lookupVars

RespondNext ==
    \/ \E q \in TestQueries, message \in TestMessages : Test_respond(q, message)
    \/ lastOp.op = "none" /\ Tick

SpecRespond == Init /\ [][RespondNext]_vars

(***************************************************************************)
(* DNSClass (proto/src/rr/dns_class.rs): the enum, its conversion to u16,  *)
(* its derived equality and its ordering.                                  *)
(***************************************************************************)
\* The largest OPT version tried besides the codes of NONE and ANY and the
\* largest u16.
MaxOpt == 4

U16_MAX == 65535

\* The variants; a value is its discriminant followed by its fields.
DNSClass_IN   == <<"IN">>
DNSClass_CH   == <<"CH">>
DNSClass_HS   == <<"HS">>
DNSClass_NONE == <<"NONE">>
DNSClass_ANY  == <<"ANY">>
DNSClass_OPT(version) == <<"OPT", version>>

OptVersions == (0..MaxOpt) \cup {254, 255, U16_MAX}

DNSClasses ==
    {DNSClass_IN, DNSClass_CH, DNSClass_HS, DNSClass_NONE, DNSClass_ANY}
        \cup {DNSClass_OPT(v) : v \in OptVersions}

\* impl From<DNSClass> for u16
u16_from(rt) ==
    CASE rt[1] = "IN"   -> 1
      [] rt[1] = "CH"   -> 3
      [] rt[1] = "HS"   -> 4
      [] rt[1] = "NONE" -> 254
      [] rt[1] = "ANY"  -> 255
      [] rt[1] = "OPT"  -> rt[2]

\* u16::cmp
u16_cmp(x, y) == IF x < y THEN "Less" ELSE IF x = y THEN "Equal" ELSE "Greater"

\* #[derive(PartialEq, Eq)]: the same variant and, for OPT, the same field.
DNSClass_eq(a, b) ==
    IF a[1] # b[1] THEN FALSE
    ELSE IF a[1] = "OPT" THEN a[2] = b[2]
    ELSE TRUE

\* Mutation: the operands are compared the other way round.
DNSClass_cmp_reversed(a, b) == u16_cmp(u16_from(b), u16_from(a))

\* impl Ord for DNSClass
DNSClass_cmp(a, b) == u16_cmp(u16_from(a), u16_from(b))

\* Vec::sort: the stable sort by Ord::cmp; x goes behind every element that
\* is not greater than it.
RECURSIVE SortedInsert(_, _)
SortedInsert(sorted, x) ==
    IF sorted = <<>> THEN <<x>>
    ELSE IF DNSClass_cmp(x, Head(sorted)) = "Less" THEN <<x>> \o sorted
    ELSE <<Head(sorted)>> \o SortedInsert(Tail(sorted), x)

RECURSIVE Vec_sort(_)
Vec_sort(v) ==
    IF v = <<>> THEN <<>>
    ELSE SortedInsert(Vec_sort(SubSeq(v, 1, Len(v) - 1)), v[Len(v)])

\* The vectors test_order may start from: the five named classes in any order.
NamedClasses == {DNSClass_IN, DNSClass_CH, DNSClass_HS, DNSClass_NONE, DNSClass_ANY}

Unordered ==
    {v \in [1..5 -> NamedClasses] : \A i, j \in 1..5 : v[i] = v[j] => i = j}

\* a.cmp(&b) and a == b
Test_cmp(a, b) ==
    /\ lastOp' = [op |-> "cmp", a |-> a, b |-> b,
                  ret |-> DNSClass_cmp(a, b), eq |-> DNSClass_eq(a, b)]
    /\ UNCHANGED <<cache, lookupVars>>

\* test_order: unordered.sort()
Test_order(unordered) ==
    /\ lastOp' = [op |-> "sort", unordered |-> unordered, ret |-> Vec_sort(unordered)]
    /\ UNCHANGED <<cache, lookupVars>>

ClassNext ==
    \/ \E a, b \in DNSClasses : Test_cmp(a, b)
    \/ \E unordered \in Unordered : Test_order(unordered)

SpecClass == Init /\ [][ClassNext]_vars

(***************************************************************************)
(* Vocabulary of the properties.                                           *)
(***************************************************************************)
\* The entries stored under key k (at most one).
EntriesOf(c, k) == {c.map[i].value : i \in {j \in DOMAIN c.map : c.map[j].key = k}}

HasKey(c, k) == EntriesOf(c, k) # {}

\* This step is the part of l's poll that runs with the guard held.
LockedStepOf(l, variant) == lockHolder = l /\ state[l] = variant /\ lockHolder' # l

HitPath == <<"get">>

MissPath == <<"get", "client.lookup">>

ClassifiedPath == <<"get", "client.lookup", "classified">>

InsertPath == <<"get", "client.lookup", "classified", "insert">>

NegativePath == <<"get", "client.lookup", "classified", "negative">>

Count(seq, x) == Cardinality({i \in DOMAIN seq : seq[i] = x})

\* The step of FromCache that reads a current positive entry.
C1_Step ==
    \A l \in Lookups : \A e \in EntriesOf(cache, query[l]) :
        (LockedStepOf(l, "FromCache") /\ IsSome(e.lookup) /\ Le(now, e.ttl_until))
        => /\ outcome'[l] = Ready(e.lookup[1])
           /\ state'[l] = "FromCache"
           /\ message_future'[l] = "none"
           /\ events'[l] = HitPath

C1_Served ==
    \A l \in Lookups :
        (outcome[l].kind = "Ready" /\ Count(events[l], "insert") = 0)
        => /\ state[l] = "FromCache"
           /\ message_future[l] = "none"
           /\ events[l] = HitPath

\* C1: when FromCache reads, under the lock, an unexpired positive entry for
\* its key, the lookup succeeds with exactly the cached records, without a call
\* of the upstream client and without leaving FromCache, then or later.
C1_CacheHit == [][C1_Step]_vars /\ []C1_Served

\* A lookup was served from an entry that another lookup had written.
C1_Witness ==
    \E l \in Lookups, w \in Lookups :
        /\ events[l] = HitPath
        /\ events[w] = InsertPath
        /\ outcome[l] = Ready(outcome[w].lookup)

\* C2: a lookup that reads an unexpired negative entry for its key fails with
\* the "does not exist" error from the cache, without an upstream query and
\* without entering Query or InsertCache.
C2_NegativeHit ==
    [][\A l \in Lookups : \A e \in EntriesOf(cache, query[l]) :
          (LockedStepOf(l, "FromCache") /\ ~IsSome(e.lookup) /\ Le(now, e.ttl_until))
          => /\ outcome'[l] = Err(nx_error(query[l]))
             /\ state'[l] = "FromCache"
             /\ message_future'[l] = "none"
             /\ events'[l] = HitPath]_vars

\* The step of InsertCache that consumes Exists(records).
C3_Step ==
    \A l \in Lookups :
        (LockedStepOf(l, "InsertCache") /\ rdatas[l].tag = "Exists")
        => LET inserted == [i \in DOMAIN rdatas[l].records |-> rdatas[l].records[i][1]]
           IN  /\ outcome'[l] = Ready(inserted)
               /\ events[l] = ClassifiedPath
               /\ events'[l] = InsertPath
               /\ cache.max_size >= 1 => HasKey(cache', query[l])
               /\ \A e \in EntriesOf(cache', query[l]) :
                     /\ e.lookup = Some(inserted)
                     /\ Le(now, e.ttl_until)

C3_OneWrite ==
    \A l \in Lookups :
        /\ Count(events[l], "insert") + Count(events[l], "negative") <= 1
        /\ (outcome[l].kind = "Ready" /\ events[l] # HitPath) => events[l] = InsertPath
        /\ rdatas[l].tag = "Exists"
           => (state[l] = "InsertCache" /\ events[l] = ClassifiedPath
               /\ rdatas[l].records # <<>>)

C3_Retrievable ==
    \A i \in DOMAIN cache.map : \A t \in Instants :
        LET e == cache.map[i]
        IN  (IsSome(e.value.lookup) /\ Le(t, e.value.ttl_until))
            => DnsLru_get(cache, e.key, t).ret = e.value.lookup

\* C3: a lookup that missed the cache and whose response classified as
\* Exists(records) writes the store once, by one insert under the lock, and
\* returns the inserted records; while the entry is in the store, a get for
\* the key at any instant up to its ttl_until returns those records.
C3_MissThenInsert == [][C3_Step]_vars /\ []C3_OneWrite /\ []C3_Retrievable

\* A lookup went through the upstream query and its insert, and its entry is
\* in the store, still current.
C3_Witness ==
    \E l \in Lookups :
        /\ events[l] = InsertPath
        /\ outcome[l].kind = "Ready"
        /\ \E i \in DOMAIN cache.map :
              /\ cache.map[i].value.lookup = Some(outcome[l].lookup)
              /\ Le(now, cache.map[i].value.ttl_until)
              /\ DnsLru_get(cache, cache.map[i].key, now).ret = Some(outcome[l].lookup)

\* The least of the TTLs of a non-empty sequence of (rdata, ttl) pairs.
MinOfTtls(rdatas_and_ttl) ==
    CHOOSE m \in {rdatas_and_ttl[i][2] : i \in DOMAIN rdatas_and_ttl} :
        \A i \in DOMAIN rdatas_and_ttl : Le(m, rdatas_and_ttl[i][2])

RdatasOf(rdatas_and_ttl) == [i \in DOMAIN rdatas_and_ttl |-> rdatas_and_ttl[i][1]]

\* The store holds, under the key of the last insert, a positive entry with
\* the inserted records that expires ttl seconds after the insert's instant.
InsertStored(ttl) ==
    /\ cache.max_size >= 1 => HasKey(cache, lastOp.query)
    /\ \A e \in EntriesOf(cache, lastOp.query) :
          /\ e.lookup = Some(RdatasOf(lastOp.rdatas_and_ttl))
          /\ e.ttl_until = Add(lastOp.now, ttl)

\* C4 as stated: after insert(key, pairs, now), for TTLs of any u32 value, the
\* entry's ttl_until is now + min(ttls).
C4_AsStated ==
    lastOp.op = "insert" => InsertStored(MinOfTtls(lastOp.rdatas_and_ttl))

\* C4: after insert(key, pairs, now) the entry's ttl_until is now plus the
\* least of MAX_TTL and the TTLs; an insert of the TTLs {1, 2} at now is
\* returned by get at now + 1s and not by get at now + 2s (a store of
\* capacity 0 keeps no entry).
C4_MinTtl ==
    lastOp.op = "insert"
    => LET m == MinOfTtls(lastOp.rdatas_and_ttl)
       IN  /\ InsertStored(IF Lt(m, MAX_TTL) THEN m ELSE MAX_TTL)
           /\ lastOp.ret = Some(RdatasOf(lastOp.rdatas_and_ttl))
           /\ (/\ cache.max_size >= 1
               /\ {lastOp.rdatas_and_ttl[i][2] : i \in DOMAIN lastOp.rdatas_and_ttl}
                     = {Secs(1), Secs(2)})
              => /\ DnsLru_get(cache, lastOp.query, Add(lastOp.now, Secs(1))).ret
                       = Some(RdatasOf(lastOp.rdatas_and_ttl))
                 /\ DnsLru_get(cache, lastOp.query, Add(lastOp.now, Secs(2))).ret = None

\* A record whose TTL is u32::max_value() was inserted alone, after time 0,
\* and is stored until MAX_TTL seconds after the insert.
C4_Witness ==
    /\ lastOp.op = "insert"
    /\ Len(lastOp.rdatas_and_ttl) = 1
    /\ lastOp.rdatas_and_ttl[1][2] = U32_MAX
    /\ lastOp.now = Secs(1)
    /\ HasKey(cache, lastOp.query)
    /\ InsertStored(MAX_TTL)

\* The effect of one get on the store.
C5_Step ==
    lastOp'.op = "get"
    => LET q == lastOp'.query
           t == lastOp'.now
       IN  /\ \A e \in EntriesOf(cache, q) :
                 /\ (IsSome(e.lookup) /\ Le(t, e.ttl_until))
                    => (lastOp'.ret = e.lookup /\ EntriesOf(cache', q) = {e})
                 /\ Lt(e.ttl_until, t)
                    => (lastOp'.ret = None /\ ~HasKey(cache', q))
           /\ ~HasKey(cache, q) => (lastOp'.ret = None /\ ~HasKey(cache', q))
           /\ \A k \in Queries \ {q} : EntriesOf(cache', k) = EntriesOf(cache, k)

\* C5: get(key, t) on a stored positive entry returns its records and keeps
\* the entry for every t <= ttl_until; on any stored entry with t > ttl_until
\* it returns None and removes the entry; a key that is not stored is None.
C5_LazyExpiry == [][C5_Step]_vars

\* A get at the very instant of expiry returned the records.
C5_Witness ==
    /\ lastOp.op = "get"
    /\ IsSome(lastOp.ret)
    /\ \E e \in EntriesOf(cache, lastOp.query) : e.ttl_until = lastOp.now

\* The store is within its capacity, one entry per key.
C6_Bounded ==
    /\ Len(cache.map) <= cache.max_size
    /\ \A i, j \in DOMAIN cache.map : cache.map[i].key = cache.map[j].key => i = j

\* C6: the store never holds more entries than the capacity it was created
\* with, nor two entries under one key, whatever the lookups do to it.
C6_Capacity == []C6_Bounded /\ [][cache'.max_size = cache.max_size]_vars

\* Two lookups have written entries under different keys into a store of
\* capacity 1, which holds the one written last.
C6_Witness ==
    /\ cache.max_size = 1
    /\ Len(cache.map) = 1
    /\ \E l \in Lookups, w \in Lookups :
          /\ events[l] = NegativePath
          /\ events[w] = NegativePath
          /\ outcome[l].error # outcome[w].error

\* Some unfinished lookup is able to step.
C7_NoDeadlock ==
    (\E l \in Lookups : Unfinished(l))
    => \E l \in Lookups : Unfinished(l) /\ ENABLED (Poll(l) \/ UpstreamResolves(l))

\* C7: some unfinished lookup can always take a step, and under the fairness
\* of SpecFair every lookup that was created ends: it resolves to a record
\* set or an error, unless its owner drops it first.
C7_Terminates ==
    /\ []C7_NoDeadlock
    /\ \A l \in Lookups : Unfinished(l) ~> ~Unfinished(l)

\* Both lookups went all the way to their own write and resolved.
C7_Witness ==
    \A l \in Lookups :
        /\ outcome[l].kind \in {"Ready", "Err"}
        /\ events[l] \in {InsertPath, NegativePath}

\* The events recorded by a lookup, by the variant it is in.
C8_Order ==
    \A l \in Lookups :
        CASE state[l] = "None" -> events[l] = <<>>
          [] state[l] = "FromCache" -> events[l] \in {<<>>, HitPath}
          [] state[l] = "Query" -> events[l] = MissPath
          [] state[l] = "InsertCache" ->
                events[l] \in {ClassifiedPath, InsertPath, NegativePath}
          [] OTHER -> FALSE

C8_Forward ==
    \A l \in Lookups :
        /\ state'[l] # state[l]
           => <<state[l], state'[l]>> \in
                 {<<"None", "FromCache">>, <<"FromCache", "Query">>,
                  <<"Query", "InsertCache">>}
        /\ outcome[l].kind # "Pending"
           => (state'[l] = state[l] /\ outcome'[l] = outcome[l] /\ events'[l] = events[l])
        /\ events'[l] # events[l]
           => \E suffix \in {<<"get">>, <<"get", "client.lookup">>, <<"classified">>,
                             <<"insert">>, <<"negative">>} :
                 events'[l] = events[l] \o suffix

\* C8: in one lookup the cache read precedes the upstream query, which
\* precedes the classification, which precedes the one cache write; the
\* variant only moves FromCache -> Query -> InsertCache, and a lookup that has
\* resolved does nothing more.
C8_Sequence == []C8_Order /\ [][C8_Forward]_vars

\* A lookup read the store, queried upstream, classified and wrote a negative
\* entry, and failed from InsertCache.
C8_Witness ==
    \E l \in Lookups :
        /\ events[l] = NegativePath
        /\ state[l] = "InsertCache"
        /\ outcome[l].kind = "Err"

\* The minimum field of the first SOA record of an authority section, if any.
FirstSoaMinimum(name_servers) ==
    LET soas == {i \in DOMAIN name_servers : name_servers[i].rr_type = "SOA"}
    IN  IF soas = {} THEN None
        ELSE Some(name_servers[CHOOSE i \in soas : \A j \in soas : i <= j].rdata.minimum)

\* After the response of lastOp: the store holds one negative entry, under the
\* query's key, that expires ttl seconds after the response (a store of
\* capacity 0 holds nothing).
NegativeStored(ttl) ==
    cache.map = IF cache.max_size >= 1
                THEN <<[key |-> lastOp.query,
                        value |-> [lookup |-> None, ttl_until |-> Add(lastOp.now, ttl[1])]]>>
                ELSE <<>>

\* The response of lastOp is classified as NoData(ttl) and the lookup ends on
\* the "does not exist" error, a negative entry stored iff there is a TTL.
NegativeOutcome(ttl) ==
    /\ lastOp.classified
    /\ lastOp.records = NoData(ttl)
    /\ lastOp.ret = None
    /\ lastOp.err = nx_error(lastOp.query)
    /\ IF IsSome(ttl) THEN NegativeStored(ttl) ELSE cache.map = <<>>

RespondedWith(code) == lastOp.op = "respond" /\ lastOp.message.response_code = code

\* C9 as stated: an NXDomain response yields the first SOA minimum as negative
\* TTL whether or not the client validates.
C9_AsStated ==
    RespondedWith("NXDomain")
    => NegativeOutcome(FirstSoaMinimum(lastOp.message.name_servers))

\* C9: an NXDomain response yields, for a client that does not validate, the
\* minimum of the first SOA record of the authority section as negative TTL
\* and none iff there is no SOA record; for a validating client it yields no
\* TTL.  With a TTL the lookup stores a negative entry that expires TTL
\* seconds later, without one it stores nothing; it fails with "does not
\* exist" in both cases.
C9_NxDomain ==
    RespondedWith("NXDomain")
    => NegativeOutcome(IF dnssec THEN None
                       ELSE FirstSoaMinimum(lastOp.message.name_servers))

\* A client that does not validate got NXDomain with an NS record before the
\* SOA record, and the negative entry is stored.
C9_Witness ==
    /\ RespondedWith("NXDomain")
    /\ ~dnssec
    /\ Len(lastOp.message.name_servers) = 2
    /\ lastOp.message.name_servers[1].rr_type = "NS"
    /\ lastOp.message.name_servers[2].rr_type = "SOA"
    /\ Len(cache.map) = 1

NoMatchingAnswer ==
    \A i \in DOMAIN lastOp.message.answers :
        lastOp.message.answers[i].rr_type # lastOp.query.query_type

\* C10 as stated: for a validating client a NoError response without an
\* answer of the requested type yields no negative TTL and writes nothing.
C10_AsStated ==
    (RespondedWith("NoError") /\ NoMatchingAnswer)
    => NegativeOutcome(IF dnssec THEN None
                       ELSE FirstSoaMinimum(lastOp.message.name_servers))

\* C10: a NoError response without an answer of the requested type yields the
\* minimum of the first SOA record as negative TTL for validating and for
\* non-validating clients alike, and no TTL iff there is no SOA record; a
\* negative entry is written exactly when there is a TTL.
C10_NoData ==
    (RespondedWith("NoError") /\ NoMatchingAnswer)
    => NegativeOutcome(FirstSoaMinimum(lastOp.message.name_servers))

\* A validating client got NoError with a CNAME answer only and an SOA record,
\* and the negative entry is stored.
C10_Witness ==
    /\ RespondedWith("NoError")
    /\ dnssec
    /\ Len(lastOp.message.answers) = 1
    /\ NoMatchingAnswer
    /\ IsSome(FirstSoaMinimum(lastOp.message.name_servers))
    /\ Len(cache.map) = 1

\* The responses that QueryFuture::poll turns into an error: the transport's
\* error and every status other than NoError and NXDomain.
FailingMessages ==
    {message \in Messages \cup {ClientErr} :
        message.response_code \notin {"NoError", "NXDomain"}}

\* The error a failing response becomes: the transport's own, or one that
\* names the status.
FailureOf(message) ==
    IF message = ClientErr
    THEN io_Error("Other", <<"ClientError">>)
    ELSE io_Error("Other", <<"DNS Error: ", message.response_code>>)

\* What the poll of a resolved upstream future can fail with.
PollFailures(l) == {c.error : c \in {x \in Classified[dnssec][query[l]] : ~x.ok}}

\* Where a lookup is about to take its resolved upstream future, the poll
\* fails with the errors of the failing responses and with no other.
C11_Classified ==
    \A l \in Lookups :
        (state[l] = "Query" /\ Unfinished(l) /\ message_future[l] = "ready")
        => PollFailures(l) = {FailureOf(message) : message \in FailingMessages}

\* A lookup that failed in Query read the store once, queried once, never
\* classified or wrote, and holds no guard.
C11_Failed ==
    \A l \in Lookups :
        (state[l] = "Query" /\ outcome[l].kind = "Err")
        => /\ events[l] = MissPath
           /\ lockHolder # l
           /\ outcome[l].error \in {FailureOf(message) : message \in FailingMessages}

\* The poll that takes the resolved upstream future either fails the lookup
\* where it is, leaving store and lock alone, or moves it on to InsertCache.
C11_Step ==
    \A l \in Lookups :
        (state[l] = "Query" /\ message_future[l] = "ready" /\ message_future'[l] = "taken")
        => /\ cache' = cache
           /\ lockHolder' = lockHolder
           /\ \/ outcome'[l].kind = "Err" /\ state'[l] = "Query" /\ events'[l] = events[l]
              \/ outcome'[l].kind = "Pending" /\ state'[l] = "InsertCache"

\* C11: a transport error or a response whose status is neither NoError nor
\* NXDomain fails the lookup from Query: it never enters InsertCache, takes
\* no lock, and the store is as it was before the response arrived.
C11_UpstreamFailure == []C11_Classified /\ []C11_Failed /\ [][C11_Step]_vars

\* A lookup failed on a ServFail response while the store held an entry that
\* another lookup had written.
C11_Witness ==
    \E l \in Lookups :
        /\ state[l] = "Query"
        /\ outcome[l] = Err(io_Error("Other", <<"DNS Error: ", "ServFail">>))
        /\ cache.map # <<>>

\* The step of InsertCache that consumes NoData(None).
C12_Step ==
    \A l \in Lookups :
        (LockedStepOf(l, "InsertCache") /\ rdatas[l] = NoData(None))
        => /\ outcome'[l] = Err(nx_error(query[l]))
           /\ outcome'[l].error.kind = "AddrNotAvailable"
           /\ cache' = cache
           /\ events[l] = ClassifiedPath
           /\ events'[l] = ClassifiedPath

\* C12: a lookup whose classification is NoData without a negative TTL fails
\* with the "does not exist" (AddrNotAvailable) error, and its InsertCache
\* step leaves the store as it was: no entry is added or replaced.
C12_NoTtlNoWrite == [][C12_Step]_vars

\* A lookup failed from InsertCache without a write while the store held the
\* entry that another lookup had inserted.
C12_Witness ==
    \E l \in Lookups, w \in Lookups :
        /\ state[l] = "InsertCache"
        /\ events[l] = ClassifiedPath
        /\ outcome[l].error.kind = "AddrNotAvailable"
        /\ events[w] = InsertPath
        /\ \E i \in DOMAIN cache.map : cache.map[i].value.lookup = Some(outcome[w].lookup)

\* What one lookup owns: everything its polls can change but the store and
\* the lock.
Own(l) == <<state[l], query[l], rdatas[l], message_future[l], notified[l],
            outcome[l], events[l], polled[l]>>

\* The error of a poisoned lock.
PoisonError == io_Error("Other", <<"poisoned: ">>)

\* A step of a lookup in FromCache or InsertCache, other than its drop, made
\* while another lookup holds the guard: the poll returns NotReady, the task
\* is notified again, and nothing else changes.
C13_Step ==
    \A l \in Lookups :
        (/\ lockHolder \notin {"none", l}
         /\ state[l] \in {"FromCache", "InsertCache"}
         /\ Unfinished(l)
         /\ Own(l)' # Own(l)
         /\ outcome'[l].kind # "Dropped")
        => /\ polled'[l] = "NotReady: WouldBlock"
           /\ notified'[l]
           /\ [Own(l) EXCEPT ![8] = polled'[l]] = Own(l)'
           /\ cache' = cache
           /\ lockHolder' = lockHolder

\* A lookup whose last poll met a held lock is unfinished and notified, if it
\* is not being polled again already or was dropped since; every error a lookup ends with is the poisoning, the
\* "does not exist" error or the failure of the upstream response.
C13_Outcomes ==
    \A l \in Lookups :
        /\ polled[l] = "NotReady: WouldBlock"
           => \/ outcome[l].kind = "Dropped"
              \/ /\ Unfinished(l)
                 /\ state[l] \in {"FromCache", "InsertCache"}
                 /\ notified[l] \/ lockHolder = l
        /\ outcome[l].kind = "Err"
           => outcome[l].error \in
                 {PoisonError} \cup {nx_error(q) : q \in Queries}
                 \cup {FailureOf(message) : message \in FailingMessages}

\* C13: a lock attempt of a lookup in FromCache or InsertCache that finds the
\* lock held returns NotReady, keeps the lookup's state and data and the
\* store as they were, and notifies the lookup's own task again; no lookup
\* ends with an error that comes from WouldBlock.
C13_Contention == []C13_Outcomes /\ [][C13_Step]_vars

\* A lookup about to insert its records found the guard held by the other
\* lookup and is waiting for its next poll, its records intact.
C13_Witness ==
    \E l \in Lookups :
        /\ lockHolder \notin {"none", l}
        /\ polled[l] = "NotReady: WouldBlock"
        /\ state[l] = "InsertCache"
        /\ rdatas[l].tag = "Exists"
        /\ notified[l]

\* A step of a lookup in FromCache or InsertCache, other than its drop, made
\* while the lock is free and poisoned: the lookup fails with the poisoning
\* where it is; the store, the lock and the upstream client are not touched.
C14_Step ==
    \A l \in Lookups :
        (/\ poisoned
         /\ lockHolder = "none"
         /\ state[l] \in {"FromCache", "InsertCache"}
         /\ Unfinished(l)
         /\ Own(l)' # Own(l)
         /\ outcome'[l].kind # "Dropped")
        => /\ outcome'[l] = Err(PoisonError)
           /\ polled'[l] = "Err"
           /\ ~notified'[l]
           /\ state'[l] = state[l]
           /\ events'[l] = events[l]
           /\ message_future'[l] = message_future[l]
           /\ cache' = cache
           /\ lockHolder' = "none"

\* A poisoned lock is held by no lookup; a lookup that failed with the
\* poisoning did so at a lock attempt, before the read or before the write,
\* and is not polled again.
C14_Poisoned ==
    /\ poisoned => lockHolder = "none"
    /\ \A l \in Lookups :
          outcome[l] = Err(PoisonError)
          => /\ poisoned
             /\ ~notified[l]
             /\ \/ state[l] = "FromCache" /\ events[l] = <<>> /\ message_future[l] = "none"
                \/ state[l] = "InsertCache" /\ events[l] = ClassifiedPath

\* C14: a lookup in FromCache or InsertCache that attempts the lock when it
\* is poisoned fails with an error describing the poisoning, without reading
\* or writing the store, without an upstream query from FromCache and without
\* a retry; the lock stays poisoned, so later attempts fail the same way.
C14_Poisoning == []C14_Poisoned /\ [][C14_Step /\ (poisoned => poisoned')]_vars

\* Both lookups failed with the poisoning, one before its read and one
\* before its write.
C14_Witness ==
    \E l \in Lookups, w \in Lookups :
        /\ outcome[l] = Err(PoisonError)
        /\ outcome[w] = Err(PoisonError)
        /\ state[l] = "FromCache"
        /\ state[w] = "InsertCache"

\* The guard is held by at most one lookup, one whose poll in FromCache or
\* InsertCache is under way; a lookup that awaits the upstream response, has
\* resolved or was dropped holds none.
C15_Held ==
    /\ Cardinality({l \in Lookups : lockHolder = l}) <= 1
    /\ \A l \in Lookups :
          lockHolder = l => (Unfinished(l) /\ state[l] \in {"FromCache", "InsertCache"})

\* The guard passes from a holder to nobody, never to another lookup; the
\* store is read and written only by the step with which the holder ends its
\* poll; a poll that returns leaves its lookup without the guard.
C15_Step ==
    /\ (lockHolder # "none" /\ lockHolder' # lockHolder) => lockHolder' = "none"
    /\ cache' # cache => (lockHolder \in Lookups /\ lockHolder' = "none")
    /\ \A l \in Lookups :
          /\ (events'[l] # events[l] /\ events'[l] # ClassifiedPath)
             => (lockHolder = l /\ lockHolder' = "none")
          /\ (polled'[l] # polled[l] \/ outcome'[l] # outcome[l]) => lockHolder' # l

\* C15: at most one lookup holds the cache lock, every read and write of the
\* store is made by the lookup that holds it, and a lookup holds no lock when
\* its poll has returned, in particular not while it is in Query awaiting the
\* upstream response.
C15_MutualExclusion == []C15_Held /\ [][C15_Step]_vars

\* One lookup holds the guard for its write while the other, polled without
\* a response yet, awaits the upstream in Query.
C15_Witness ==
    \E l \in Lookups, w \in Lookups :
        /\ lockHolder = l
        /\ state[l] = "InsertCache"
        /\ state[w] = "Query"
        /\ Unfinished(w)
        /\ polled[w] = "NotReady: upstream"

\* The variant a lookup is in once it was created.
Variants == {"FromCache", "Query", "InsertCache"}

\* C16: QueryState::Error, which a transition leaves behind when it panics on
\* a variant it does not expect and in which the next poll panics, is never
\* the variant of a lookup: after every poll that returned, NotReady, Ready
\* or Err, the lookup is in FromCache, Query or InsertCache.
C16_NeverError ==
    \A l \in Lookups :
        /\ state[l] # "Error"
        /\ state[l] \in Variants \cup {"None"}
        /\ polled[l] # "never" => state[l] \in Variants

\* One lookup went through both transitions and resolved in InsertCache, the
\* other was left in Query by a poll that returned NotReady.
C16_Witness ==
    \E l \in Lookups, w \in Lookups :
        /\ state[l] = "InsertCache"
        /\ polled[l] = "Ready"
        /\ state[w] = "Query"
        /\ polled[w] = "NotReady"

\* The entry that the InsertCache step of l is to write under its key: the
\* records until the least of their TTLs and MAX_TTL from now, or the
\* negative marker until the negative TTL from now.
EntryToWrite(l) ==
    IF rdatas[l].tag = "Exists"
    THEN LET m == MinOfTtls(rdatas[l].records)
         IN  [lookup |-> Some(RdatasOf(rdatas[l].records)),
              ttl_until |-> Add(now, IF Lt(m, MAX_TTL) THEN m ELSE MAX_TTL)]
    ELSE [lookup |-> None, ttl_until |-> Add(now, rdatas[l].ttl[1])]

\* A miss issues the lookup's own upstream query, whatever the other lookups
\* are doing for the same key and without touching their futures; a write
\* leaves the writer's entry as the only one under its key, whatever was
\* stored under it before.
C17_Step ==
    \A l \in Lookups :
        /\ (LockedStepOf(l, "FromCache") /\ ~IsSome(DnsLru_get(cache, query[l], now).ret))
           => /\ state'[l] = "Query"
              /\ message_future'[l] = "pending"
              /\ events'[l] = MissPath
              /\ \A w \in Lookups \ {l} : Own(w)' = Own(w)
        /\ (/\ LockedStepOf(l, "InsertCache")
            /\ rdatas[l].tag = "Exists" \/ IsSome(rdatas[l].ttl)
            /\ cache.max_size >= 1)
           => /\ EntriesOf(cache', query[l]) = {EntryToWrite(l)}
              /\ Len(events'[l]) = 4
              /\ \A w \in Lookups \ {l} : Own(w)' = Own(w)

\* Every lookup that wrote the store had issued one upstream query of its own.
C17_OwnQuery ==
    \A l \in Lookups :
        (Count(events[l], "insert") + Count(events[l], "negative") > 0)
        => (Count(events[l], "client.lookup") = 1 /\ message_future[l] = "taken")

C18_Dropped ==
    \A l \in Lookups :
        outcome[l].kind = "Dropped"
        => /\ Count(events[l], "insert") + Count(events[l], "negative") = 0
           /\ lockHolder # l

\* The drop of a lookup leaves the store and the lock as they are, and a
\* dropped lookup takes no step.
C18_Step ==
    \A l \in Lookups :
        /\ (outcome[l].kind # "Dropped" /\ outcome'[l].kind = "Dropped")
           => /\ cache' = cache
              /\ lockHolder' = lockHolder
              /\ lockHolder # l
              /\ events'[l] = events[l]
        /\ outcome[l].kind = "Dropped" => Own(l)' = Own(l)

\* C18: a lookup that is dropped before its InsertCache step holds the lock,
\* in FromCache, in Query or in InsertCache under contention, has inserted
\* no positive or negative entry, inserts none later, and holds no lock.
C18_Cancellation == []C18_Dropped /\ [][C18_Step]_vars

\* A lookup was dropped in InsertCache, with its records classified, after a
\* lock attempt that found the guard held.
C18_Witness ==
    \E l \in Lookups :
        /\ outcome[l].kind = "Dropped"
        /\ state[l] = "InsertCache"
        /\ events[l] = ClassifiedPath
        /\ polled[l] = "NotReady: WouldBlock"

\* The answers of the given type, in the order of the answer section, each
\* as its (rdata, ttl) pair.
Kept(answers, query_type) ==
    LET matching == {i \in DOMAIN answers : answers[i].rr_type = query_type}
        nth(k)   == CHOOSE i \in matching : Cardinality({j \in matching : j < i}) = k - 1
    IN  [k \in 1..Cardinality(matching) |-> <<answers[nth(k)].rdata, answers[nth(k)].ttl>>]

\* C19: for a NoError response the classifier keeps exactly the answers of
\* the requested type, in their order and each with its own TTL, and yields
\* Exists(kept) iff one is kept; the entry then written under the query and
\* the result returned hold the kept records and no record of another type.
C19_Filter ==
    RespondedWith("NoError")
    => LET kept == Kept(lastOp.message.answers, lastOp.query.query_type)
       IN  /\ lastOp.classified
           /\ lastOp.records.tag = "Exists" <=> kept # <<>>
           /\ kept # <<>>
              => /\ lastOp.records = Exists(kept)
                 /\ lastOp.ret = Some(RdatasOf(kept))
                 /\ \A i \in DOMAIN lastOp.ret[1] :
                       lastOp.ret[1][i].tag = lastOp.query.query_type
                 /\ cache.max_size >= 1 => HasKey(cache, lastOp.query)
                 /\ \A e \in EntriesOf(cache, lastOp.query) :
                       e.lookup = Some(RdatasOf(kept))
           /\ kept = <<>>
              => /\ lastOp.ret = None
                 /\ \A e \in EntriesOf(cache, lastOp.query) : ~IsSome(e.lookup)

\* A response whose answers are a CNAME record and then an A record answered
\* a query for A: the A record alone was kept, stored and returned.
C19_Witness ==
    /\ RespondedWith("NoError")
    /\ lastOp.query.query_type = "A"
    /\ Len(lastOp.message.answers) = 2
    /\ lastOp.message.answers[1].rr_type = "CNAME"
    /\ lastOp.message.answers[2].rr_type = "A"
    /\ lastOp.ret = Some(<<lastOp.message.answers[2].rdata>>)
    /\ HasKey(cache, lastOp.query)

\* C20: the entry of an insert expires at most MAX_TTL seconds after the
\* insert; when every record's TTL is above MAX_TTL it expires exactly
\* MAX_TTL seconds after it; and a get at the instant of the insert returns
\* the inserted records (a store of capacity 0 keeps no entry).
C20_Ceiling ==
    lastOp.op = "insert"
    => LET ttls    == {lastOp.rdatas_and_ttl[i][2] : i \in DOMAIN lastOp.rdatas_and_ttl}
           ceiling == Add(lastOp.now, MAX_TTL)
       IN  /\ \A e \in EntriesOf(cache, lastOp.query) :
                 /\ Le(e.ttl_until, ceiling)
                 /\ (\A ttl \in ttls : Lt(MAX_TTL, ttl)) => e.ttl_until = ceiling
           /\ cache.max_size >= 1
              => /\ HasKey(cache, lastOp.query)
                 /\ DnsLru_get(cache, lastOp.query, lastOp.now).ret
                       = Some(RdatasOf(lastOp.rdatas_and_ttl))

\* Records whose TTL is u32::max_value() were inserted at the latest instant
\* and are stored until exactly MAX_TTL seconds later.
C20_Witness ==
    /\ lastOp.op = "insert"
    /\ \A i \in DOMAIN lastOp.rdatas_and_ttl : lastOp.rdatas_and_ttl[i][2] = U32_MAX
    /\ lastOp.now = Secs(MaxInstant)
    /\ \E e \in EntriesOf(cache, lastOp.query) :
          e.ttl_until = Add(Secs(MaxInstant), MAX_TTL)
    /\ DnsLru_get(cache, lastOp.query, lastOp.now).ret # None

\* C21: a.cmp(b) is the comparison of the 16-bit codes of a and b, for all
\* classes a and b, and sorting the five named classes from any order gives
\* IN(1), CH(3), HS(4), NONE(254), ANY(255).
C21_OrderByCode ==
    /\ lastOp.op = "cmp"
       => /\ lastOp.ret = "Less"    <=> u16_from(lastOp.a) < u16_from(lastOp.b)
          /\ lastOp.ret = "Equal"   <=> u16_from(lastOp.a) = u16_from(lastOp.b)
          /\ lastOp.ret = "Greater" <=> u16_from(lastOp.a) > u16_from(lastOp.b)
    /\ lastOp.op = "sort"
       => /\ lastOp.ret = <<DNSClass_IN, DNSClass_CH, DNSClass_HS, DNSClass_NONE, DNSClass_ANY>>
          /\ [i \in 1..5 |-> u16_from(lastOp.ret[i])] = <<1, 3, 4, 254, 255>>

\* The vector of test_order, NONE, HS, CH, IN, ANY, was sorted.
C21_Witness ==
    /\ lastOp.op = "sort"
    /\ lastOp.unordered = <<DNSClass_NONE, DNSClass_HS, DNSClass_CH, DNSClass_IN, DNSClass_ANY>>
    /\ lastOp.ret # lastOp.unordered

\* C23 as stated: for all classes a and b, OPT(v) included, a.cmp(b) is Equal
\* if and only if a == b.
C23_AsStated == lastOp.op = "cmp" => (lastOp.ret = "Equal" <=> lastOp.eq)

\* An unfinished lookup between two polls whose task is not notified waits
\* for its upstream future, which is pending.
C22_Woken == \A l \in Lookups :
    (Unfinished(l) /\ lockHolder # l /\ ~notified[l])
    => /\ state[l] = "Query"
       /\ message_future[l] = "pending"
       /\ polled[l] = "NotReady: upstream"

\* A poll that changes the variant, or that finds the lock held, leaves the
\* task notified and returns NotReady; a poll that returns NotReady without
\* notifying found the upstream future pending.
C22_Step == \A l \in Lookups :
    /\ (state[l] \in {"FromCache", "Query"} /\ state'[l] # state[l])
       => notified'[l] /\ polled'[l] = "NotReady" /\ outcome'[l].kind = "Pending"
    /\ (polled'[l] = "NotReady: WouldBlock" /\ polled'[l] # polled[l])
       => notified'[l] /\ state'[l] = state[l] /\ outcome'[l].kind = "Pending"
    /\ (polled'[l] = "NotReady: upstream" /\ polled'[l] # polled[l])
       => ~notified'[l] /\ message_future'[l] = "pending"

\* The lookup is unfinished in the variant and its last poll returned so.
Returned(l, variant, ret) == Unfinished(l) /\ state[l] = variant /\ polled[l] = ret

\* After the transition to the variant, or after a contended lock attempt
\* in it, the variant is polled (or the future is dropped): the lookup does
\* not stay as that poll left it.
C22_PolledAgain == \A l \in Lookups :
    /\ []<>~Returned(l, "Query", "NotReady")
    /\ []<>~Returned(l, "InsertCache", "NotReady")
    /\ []<>~Returned(l, "FromCache", "NotReady: WouldBlock")
    /\ []<>~Returned(l, "InsertCache", "NotReady: WouldBlock")

\* C22: a poll that returns NotReady after the FromCache -> Query
\* transition, after the Query -> InsertCache transition or after a
\* contended lock attempt has notified its own task, and the lookup is then
\* polled again without any other event; only a poll that found the
\* upstream future pending returns NotReady without notifying.
C22_NoLostWakeup == []C22_Woken /\ [][C22_Step]_vars /\ C22_PolledAgain

\* A lookup went through both transitions and a contended lock attempt in
\* InsertCache, and then resolved.
C22_Witness == \E l \in Lookups :
    /\ events[l] = InsertPath
    /\ outcome[l].kind = "Ready"
    /\ \E w \in Lookups \ {l} : polled[w] = "NotReady: WouldBlock" /\ notified[w]

====
